---- MODULE Spec2Model ----
(***************************************************************************)
(* A model of the ot-sca acquisition layer:                                *)
(*   - OTMLDSA (target/communication/sca_ml_dsa_commands.py): the uJSON    *)
(*     command channel of the ML-DSA SCA application, its two response     *)
(*     readers, the FVSR workload starters and the dispatch by name;       *)
(*   - Husky (capture/scopes/chipwhisperer/husky.py): the timing plan      *)
(*     computed by the constructor and the lock / arm / capture session.   *)
(*                                                                         *)
(* Text is modelled as a sequence of fragments.  A fragment is a piece of  *)
(* text that is either one of the delimiters the code searches for or a    *)
(* piece that contains none of them, so a substring test is a membership   *)
(* test and str.split is a cut at a fragment.                              *)
(***************************************************************************)
EXTENDS Integers, Sequences, FiniteSets, TLC

\* ------------------------------------------------------------ bounds

\* Lines of at most this many fragments are offered by the transport.
MaxLineLen == 3
\* Attempt budgets handed to the readers range over -1..MaxAttempts.
MaxAttempts == 2
\* A reader is followed for this many readline calls beyond its budget.
MaxOverrun == 2
\* Fixed vectors have at most this many elements, iteration counts go to it.
MaxVecLen == 2
\* Requested cycle counts range over -1..MaxCycles.
MaxCycles == 6
\* Target clock multipliers range over 0..MaxClkMult.
MaxClkMult == 3
\* Requested offset cycles range over -MaxOffsetCycles..MaxOffsetCycles.
MaxOffsetCycles == 2

\* ------------------------------------------------------------ text

Junk == "junk"
RespOk == "RESP_OK"
RespOkColon == "RESP_OK:"
Crc == " CRC:"
BodyResult42 == "{\"result\":42}"
BodyResult0 == "{\"result\":0}"
BodyNotJson == "{not-json}"
BodyStatus == "{\"status\":0}"
BodyTruncated == "{\"result\":"
BodyMsgResult == "{\"msg\":\"result\"}"

Fragments ==
    { Junk, RespOk, RespOkColon, Crc, BodyResult42, BodyNotJson,
      BodyStatus, BodyTruncated, BodyMsgResult }

\* The lines of the spec's own scenarios, longer than MaxLineLen.
ExampleLines ==
    { << Junk, RespOkColon, BodyResult42, Crc, Junk >>,
      << RespOkColon, BodyNotJson, Crc, Junk >>,
      << Junk, RespOkColon, BodyResult0, Crc, RespOkColon >>,
      << Crc, RespOk, RespOkColon, BodyResult42, Crc >> }

Lines ==
    UNION { [1..n -> Fragments] : n \in 0..MaxLineLen } \cup ExampleLines

\* Python values that cross the interface of the object: None, an int, a
\* str (its fragments in s), a list of ints (its elements in v).
PyNone == [t |-> "None", n |-> 0, s |-> << >>, v |-> << >>]
PyInt(n) == [t |-> "int", n |-> n, s |-> << >>, v |-> << >>]
PyStr(s) == [t |-> "str", n |-> 0, s |-> s, v |-> << >>]
PyList(v) == [t |-> "list", n |-> 0, s |-> << >>, v |-> v]

\* `needle in text` for a delimiter or a word the fragments keep whole.
Contains(text, needle) ==
    \E i \in 1..Len(text) :
        \/ text[i] = needle
        \/ needle = RespOk /\ text[i] = RespOkColon
        \/ needle = "result"
           /\ text[i] \in {BodyResult42, BodyResult0, BodyTruncated, BodyMsgResult}

\* The positions of a delimiter in a text.
Cuts(text, sep) == { i \in 1..Len(text) : text[i] = sep }

Min(S) == CHOOSE x \in S : \A y \in S : x <= y

\* text.split(sep)[0]: the text before the first sep, all of it without one.
SplitHead(text, sep) ==
    IF Cuts(text, sep) = {} THEN text
    ELSE SubSeq(text, 1, Min(Cuts(text, sep)) - 1)

\* Whether text.split(sep)[1] exists: it does when sep occurs.
HasSecond(text, sep) == Cuts(text, sep) # {}

\* text.split(sep)[1]: the text between the first sep and the next one.
SplitSecond(text, sep) ==
    LET first == Min(Cuts(text, sep))
        rest == SubSeq(text, first + 1, Len(text))
    IN  SplitHead(rest, sep)

\* ExtractBody without the cut at " CRC:".
ExtractBodyKeepsCrc(read_line) == SplitSecond(read_line, RespOkColon)

\* read_line.split("RESP_OK:")[1].split(" CRC:")[0]
ExtractBody(read_line) == SplitHead(SplitSecond(read_line, RespOkColon), Crc)

\* json.loads of one fragment: the decoded object, by its keys.
JsonOfFragment(f) ==
    CASE f = BodyResult42 -> [ok |-> TRUE, keys |-> {"result"}, result |-> PyInt(42)]
      [] f = BodyResult0 -> [ok |-> TRUE, keys |-> {"result"}, result |-> PyInt(0)]
      [] f = BodyStatus -> [ok |-> TRUE, keys |-> {"status"}, result |-> PyNone]
      [] f = BodyMsgResult -> [ok |-> TRUE, keys |-> {"msg"}, result |-> PyNone]
      [] OTHER -> [ok |-> FALSE, keys |-> {}, result |-> PyNone]

\* json.loads(text): one document and nothing around it, else a decode error.
JsonLoads(text) ==
    IF Len(text) = 1 THEN JsonOfFragment(text[1])
    ELSE [ok |-> FALSE, keys |-> {}, result |-> PyNone]

\* ------------------------------------------------------------ state

VARIABLES
    simple_serial,  \* OTMLDSA.simple_serial
    stack,          \* the methods of OTMLDSA in progress, outermost first
    testname,       \* start_test's testname, "" outside start_test
    call_args,      \* the arguments of the outermost call, None where absent
    pc,             \* position of the call: idle, readline, parse, done
    num_attempts,   \* the reader's budget (num_attempts / max_tries)
    read_counter,   \* the reader's counter (read_counter / it)
    read_line,      \* the line readline returned last
    outcome,        \* how the call ended: kind none | return | raise
    wire,           \* the call's sleeps and transport writes, in order
    reads,          \* readline calls of the call
    marker_before   \* a line read before read_line held RESP_OK

cmdVars ==
    << simple_serial, stack, testname, call_args, pc, num_attempts,
       read_counter, read_line, outcome, wire, reads, marker_before >>

\* The Husky object and the call in progress on it.
VARIABLES
    hargs,          \* the arguments __init__ was called with
    husky,          \* the fields of the Husky object (self)
    raw_samples,    \* self.num_samples as line 34 of __init__ left it
    hop,            \* the method of Husky in progress or just over
    hpc,            \* position: new, idle, lock_poll, capture_poll, done
    houtcome,       \* how the method ended
    ping_cnt,       \* initialize_scope's ping_cnt
    lock_polls,     \* reads of scope.clock.adc_locked in the call
    lock_delays,    \* time.sleep(0.5) calls in the call
    lock_seen,      \* a read of adc_locked in the call gave true
    poll_i,         \* capture_and_transfer_waves' i
    done_polls,     \* target.is_done() calls in the call
    capture_ret,    \* ret: scope.capture reported a timeout
    warnings,       \* the warnings printed in the call, in order
    dev_log,        \* the accesses to the instrument in the call, in order
    armed           \* the instrument is armed

huskyVars ==
    << hargs, husky, raw_samples, hop, hpc, houtcome, ping_cnt, lock_polls, lock_delays,
       lock_seen, poll_i, done_polls, capture_ret, warnings, dev_log, armed >>

vars == << cmdVars, huskyVars >>

NoOutcome == [kind |-> "none", exc |-> "", value |-> PyNone]
Return(v) == [kind |-> "return", exc |-> "", value |-> v]
Raise(e) == [kind |-> "raise", exc |-> e, value |-> PyNone]

Desynchronized == "Acknowledge error: Device and host not in sync"

\* What reaches the caller of the outermost method: an exception passes
\* through every frame, start_test drops its callee's return value.
Surfaced(st, out) ==
    IF out.kind = "return" /\ st # << >> /\ st[1] = "start_test"
    THEN Return(PyNone)
    ELSE out

\* The call is over with `out`, having put `w` on the transport.
Finish(st, w, out) ==
    /\ pc' = "done"
    /\ stack' = st
    /\ wire' = w
    /\ outcome' = Surfaced(st, out)

\* ------------------------------------------------------------ frames

\* json.dumps(x).encode("ascii") of a tag or of a payload object, kept as the
\* value a JSON decoder reads back from the bytes.
TagFrame(name) ==
    [tag |-> name, data |-> PyNone, data_length |-> 0, iterations |-> 0]
PayloadFrame(d, len, iters) ==
    [tag |-> "", data |-> d, data_length |-> len, iterations |-> iters]

Sleep == [ev |-> "sleep", frame |-> TagFrame("")]
Write(frame) == [ev |-> "write", frame |-> frame]

\* The frames written, in order, without the sleeps.
RECURSIVE Writes(_)
Writes(w) ==
    IF w = << >> THEN << >>
    ELSE IF Head(w).ev = "write" THEN << Head(w).frame >> \o Writes(Tail(w))
         ELSE Writes(Tail(w))

\* UjsonMlDsaScaCmd with the delay after the write.
UjsonMlDsaScaCmdDelayAfter == << Write(TagFrame("MlDsaSca")), Sleep >>

\* _ujson_ml_dsa_sca_cmd: a settling delay, then the mode-selector frame.
UjsonMlDsaScaCmd == << Sleep, Write(TagFrame("MlDsaSca")) >>

\* ------------------------------------------------------------ readers

ResultReader == "ml_dsa_sca_read_response"
StrictReader == "read_response"

\* init reads the device identifier with read_response(max_tries=30).
InitMaxTries == 30
\* read_response's default max_tries.
DefaultMaxTries == 1

Max0(n) == IF n > 0 THEN n ELSE 0

\* The reader in progress is the innermost frame.
Reader(st) == st[Len(st)]

\* while read_counter < num_attempts
ResultLoopTest(counter, budget) == counter < budget

\* while it != max_tries
StrictLoopTest(it, max_tries) == it # max_tries

\* ResultOnLine with the decode error swallowed (except: pass): the reader
\* goes round again on a body that holds "result" and does not decode.
ResultOnLineSwallows(line, counter) ==
    IF Contains(line, RespOk)
    THEN IF ~HasSecond(line, RespOkColon)
         THEN [go |-> "raise", out |-> Raise("IndexError"), counter |-> counter]
         ELSE LET json_string == SplitHead(SplitSecond(line, RespOkColon), Crc)
                  doc == JsonLoads(json_string)
              IN  IF Contains(json_string, "result") /\ doc.ok
                     /\ "result" \in doc.keys
                  THEN [go |-> "return", out |-> Return(doc.result),
                        counter |-> counter]
                  ELSE [go |-> "continue", out |-> NoOutcome, counter |-> counter]
    ELSE [go |-> "continue", out |-> NoOutcome, counter |-> counter + 1]

\* The loop body of ml_dsa_sca_read_response on one line: return, raise, or
\* go round again with the counter as the body left it.
ResultOnLine(line, counter) ==
    IF Contains(line, RespOk)
    THEN IF ~HasSecond(line, RespOkColon)
         THEN [go |-> "raise", out |-> Raise("IndexError"), counter |-> counter]
         ELSE LET json_string == ExtractBody(line)
                  doc == JsonLoads(json_string)
              IN  IF Contains(json_string, "result")
                  THEN IF doc.ok /\ "result" \in doc.keys
                       THEN [go |-> "return", out |-> Return(doc.result),
                             counter |-> counter]
                       ELSE [go |-> "raise", out |-> Raise(Desynchronized),
                             counter |-> counter]
                  ELSE [go |-> "continue", out |-> NoOutcome, counter |-> counter]
    ELSE [go |-> "continue", out |-> NoOutcome, counter |-> counter + 1]

\* The loop body of read_response on one line.
StrictOnLine(line, it) ==
    IF Contains(line, RespOk)
    THEN IF ~HasSecond(line, RespOkColon)
         THEN [go |-> "raise", out |-> Raise("IndexError"), counter |-> it]
         ELSE [go |-> "return", out |-> Return(PyStr(ExtractBody(line))),
               counter |-> it]
    ELSE [go |-> "continue", out |-> NoOutcome, counter |-> it + 1]

\* ResultExhausted as read_response ends: return "" instead of raising.
ResultExhaustedReturnsEmpty == Return(PyStr(<< >>))

\* What follows the loop of ml_dsa_sca_read_response.
ResultExhausted == Raise(Desynchronized)

\* StrictExhausted as the result reader ends: raise instead of return "".
StrictExhaustedRaises == Raise(Desynchronized)

\* What follows the loop of read_response: return "".
StrictExhausted == Return(PyStr(<< >>))

LoopTest(r, counter, budget) ==
    IF r = StrictReader THEN StrictLoopTest(counter, budget)
    ELSE ResultLoopTest(counter, budget)

OnLine(r, line, counter) ==
    IF r = StrictReader THEN StrictOnLine(line, counter)
    ELSE ResultOnLine(line, counter)

Exhausted(r) == IF r = StrictReader THEN StrictExhausted ELSE ResultExhausted

NoReader ==
    /\ num_attempts' = 0
    /\ read_counter' = 0
    /\ read_line' = << >>
    /\ reads' = 0
    /\ marker_before' = FALSE

\* A reader starts in frame st with budget n, w already on the transport:
\* the counter is zeroed and the loop test is made for the first time.
EnterReader(st, w, n) ==
    /\ num_attempts' = n
    /\ read_counter' = 0
    /\ read_line' = << >>
    /\ reads' = 0
    /\ marker_before' = FALSE
    /\ IF LoopTest(Reader(st), 0, n)
       THEN /\ pc' = "readline"
            /\ stack' = st
            /\ wire' = w
            /\ outcome' = NoOutcome
       ELSE Finish(st, w, Exhausted(Reader(st)))

\* self.target.readline(): the transport hands over any line.
ReadLine ==
    /\ UNCHANGED huskyVars
    /\ pc = "readline"
    /\ reads < Max0(num_attempts) + MaxOverrun
    /\ \E line \in Lines : read_line' = line
    /\ reads' = reads + 1
    /\ pc' = "parse"
    /\ UNCHANGED << simple_serial, stack, testname, call_args, num_attempts,
                    read_counter, outcome, wire, marker_before >>

\* The rest of the loop body and the next loop test.  Going round again,
\* read_line is dead: the next readline overwrites it before any use.
ParseLine ==
    /\ UNCHANGED huskyVars
    /\ pc = "parse"
    /\ LET r == Reader(stack)
           h == OnLine(r, read_line, read_counter)
       IN  /\ read_counter' = h.counter
           /\ IF h.go = "continue" /\ LoopTest(r, h.counter, num_attempts)
              THEN /\ pc' = "readline"
                   /\ read_line' = << >>
                   /\ marker_before' =
                          (marker_before \/ Contains(read_line, RespOk))
                   /\ UNCHANGED << stack, wire, outcome >>
              ELSE /\ Finish(stack, wire,
                             IF h.go = "continue" THEN Exhausted(r) ELSE h.out)
                   /\ UNCHANGED << read_line, marker_before >>
    /\ UNCHANGED << simple_serial, testname, call_args, num_attempts, reads >>

\* ------------------------------------------------------------ workloads

VecMethods ==
    { "ml_dsa_vec_reject_batch_fvsr", "ml_dsa_vec_add_batch_fvsr",
      "ml_dsa_vec_sub_batch_fvsr", "ml_dsa_vec_mul_batch_fvsr",
      "ml_dsa_vec_mac_batch_fvsr", "ml_dsa_vec_ntt_batch_fvsr",
      "ml_dsa_vec_intt_batch_fvsr" }

DecomposeMethod == "ml_dsa_decompose_batch_fvsr"

WorkloadMethods == VecMethods \cup {DecomposeMethod}

\* The operation frame each workload method writes.
OperationFrame(method) ==
    CASE method = "ml_dsa_vec_reject_batch_fvsr" -> "RejectFvsr"
      [] method = "ml_dsa_decompose_batch_fvsr" -> "DecomposeFvsr"
      [] method = "ml_dsa_vec_add_batch_fvsr" -> "VecAddFvsr"
      [] method = "ml_dsa_vec_sub_batch_fvsr" -> "VecSubFvsr"
      [] method = "ml_dsa_vec_mul_batch_fvsr" -> "VecMulFvsr"
      [] method = "ml_dsa_vec_mac_batch_fvsr" -> "VecMacFvsr"
      [] method = "ml_dsa_vec_ntt_batch_fvsr" -> "NttFvsr"
      [] method = "ml_dsa_vec_intt_batch_fvsr" -> "InttFvsr"

\* Bytes per vector element in data_length.
BytesPerElement == 4

\* VecPayload with decompose's fixed data_length of 4.
VecPayloadFixedLength(data, num_segments) ==
    PayloadFrame(PyList(data.v), 4, num_segments)

\* The payload of a vector workload: a copy of the list, its byte length, the
\* iteration count.
VecPayload(data, num_segments) ==
    PayloadFrame(PyList(data.v), BytesPerElement * Len(data.v), num_segments)

\* The payload of decompose: the datum as it is and a length of 4.
DecomposePayload(data, num_segments) == PayloadFrame(data, 4, num_segments)

\* The mode selector, the operation frame and the settling delay that every
\* workload method puts on the transport before it builds its payload.
WorkloadHead(method) ==
    UjsonMlDsaScaCmd \o << Write(TagFrame(OperationFrame(method))), Sleep >>

\* A vector workload, start to end: iterating a datum that is no list raises
\* after the head is out.
VecWorkload(method, data, num_segments) ==
    IF data.t = "list"
    THEN [w |-> WorkloadHead(method)
                    \o << Write(VecPayload(data, num_segments)) >>,
          out |-> Return(PyNone)]
    ELSE [w |-> WorkloadHead(method), out |-> Raise("TypeError")]

DecomposeWorkload(data, num_segments) ==
    [w |-> WorkloadHead(DecomposeMethod)
               \o << Write(DecomposePayload(data, num_segments)) >>,
     out |-> Return(PyNone)]

Workload(method, data, num_segments) ==
    IF method = DecomposeMethod THEN DecomposeWorkload(data, num_segments)
    ELSE VecWorkload(method, data, num_segments)

\* A workload method runs in frame st.
RunWorkload(st, method, data, num_segments) ==
    /\ Finish(st, Workload(method, data, num_segments).w,
              Workload(method, data, num_segments).out)
    /\ NoReader

\* The body of init in frame st.
InitBody(st) ==
    IF ~simple_serial
    THEN EnterReader(st \o << StrictReader >>,
                     UjsonMlDsaScaCmd \o << Write(TagFrame("Init")) >>,
                     InitMaxTries)
    ELSE Finish(st, << >>, Return(PyNone)) /\ NoReader

\* ------------------------------------------------------------ inputs

ExampleVector == << 1, 2, 3, 4 >>
ExampleIterations == 10

Vectors == UNION { [1..n -> 1..2] : n \in 0..MaxVecLen } \cup {ExampleVector}
Iterations == 0..MaxVecLen \cup {ExampleIterations}
Budgets == -1..MaxAttempts

\* The attributes getattr finds on the object, and two names beside them.
Methods ==
    WorkloadMethods
        \cup { "init", ResultReader, StrictReader, "start_test",
               "_ujson_ml_dsa_sca_cmd" }
DataAttributes == { "simple_serial" }
Attributes == Methods \cup DataAttributes
TestNames == Attributes \cup { "no_such_test", "VecAddFvsr" }

\* (arg1, arg2) as start_test is called.
TestArgs ==
    { << PyNone, PyNone >> }
        \cup { << PyInt(n), PyNone >> : n \in Budgets }
        \cup { << PyList(v), PyInt(n) >> : v \in Vectors, n \in Iterations }
        \cup { << PyNone, PyInt(n) >> : n \in Iterations }

\* How many arguments start_test passes on.
PassedArgs(arg1, arg2) ==
    IF arg1 # PyNone /\ arg2 = PyNone THEN 1
    ELSE IF arg2 # PyNone THEN 2
    ELSE 0

\* ml_dsa_sca_read_response's default num_attempts.
DefaultNumAttempts == 100

\* ------------------------------------------------------------ calls

\* StartTest with getattr(self, testname, None) and a test for None: a name
\* that is no attribute is passed over in silence.
StartTestSilent(name, arg1, arg2) ==
    LET argc == PassedArgs(arg1, arg2)
        st == << "start_test", name >>
    IN  IF name \notin Attributes
        THEN Finish(<< "start_test" >>, << >>, Return(PyNone)) /\ NoReader
        ELSE IF name = "init" /\ argc = 0
        THEN InitBody(st)
        ELSE IF name = "_ujson_ml_dsa_sca_cmd" /\ argc = 0
        THEN Finish(st, UjsonMlDsaScaCmd, Return(PyNone)) /\ NoReader
        ELSE IF name = StrictReader /\ argc = 0
        THEN EnterReader(st, << >>, DefaultMaxTries)
        ELSE IF name = ResultReader /\ argc = 0
        THEN EnterReader(st, << >>, DefaultNumAttempts)
        ELSE IF name \in {StrictReader, ResultReader} /\ argc = 1
        THEN EnterReader(st, << >>, arg1.n)
        ELSE IF name \in WorkloadMethods /\ argc = 2
        THEN RunWorkload(st, name, arg1, arg2.n)
        ELSE Finish(<< "start_test" >>, << >>, Raise("TypeError")) /\ NoReader

\* start_test(testname, arg1, arg2): getattr, then the call with the
\* arguments that are not None.  A missing attribute raises AttributeError;
\* an attribute that is no method, or a method handed the wrong number of
\* arguments, raises TypeError before its body runs.
StartTest(name, arg1, arg2) ==
    LET argc == PassedArgs(arg1, arg2)
        st == << "start_test", name >>
    IN  IF name \notin Attributes
        THEN Finish(<< "start_test" >>, << >>, Raise("AttributeError")) /\ NoReader
        ELSE IF name = "init" /\ argc = 0
        THEN InitBody(st)
        ELSE IF name = "_ujson_ml_dsa_sca_cmd" /\ argc = 0
        THEN Finish(st, UjsonMlDsaScaCmd, Return(PyNone)) /\ NoReader
        ELSE IF name = StrictReader /\ argc = 0
        THEN EnterReader(st, << >>, DefaultMaxTries)
        ELSE IF name = ResultReader /\ argc = 0
        THEN EnterReader(st, << >>, DefaultNumAttempts)
        ELSE IF name \in {StrictReader, ResultReader} /\ argc = 1
        THEN EnterReader(st, << >>, arg1.n)
        ELSE IF name \in WorkloadMethods /\ argc = 2
        THEN RunWorkload(st, name, arg1, arg2.n)
        ELSE Finish(<< "start_test" >>, << >>, Raise("TypeError")) /\ NoReader

CallStartTest ==
    /\ UNCHANGED huskyVars
    /\ pc = "idle"
    /\ \E name \in TestNames, args \in TestArgs :
        \* the default budget of 100 lines is left to the direct calls' budgets
        /\ ~(name = ResultReader /\ PassedArgs(args[1], args[2]) = 0)
        /\ testname' = name
        /\ call_args' = args
        /\ StartTest(name, args[1], args[2])
    /\ UNCHANGED simple_serial

CallResultReader ==
    /\ UNCHANGED huskyVars
    /\ pc = "idle"
    /\ \E n \in Budgets :
        /\ call_args' = << PyInt(n), PyNone >>
        /\ EnterReader(<< ResultReader >>, << >>, n)
    /\ UNCHANGED << simple_serial, testname >>

CallReadResponse ==
    /\ UNCHANGED huskyVars
    /\ pc = "idle"
    /\ \E n \in Budgets :
        /\ call_args' = << PyInt(n), PyNone >>
        /\ EnterReader(<< StrictReader >>, << >>, n)
    /\ UNCHANGED << simple_serial, testname >>

CallInit ==
    /\ UNCHANGED huskyVars
    /\ pc = "idle"
    /\ call_args' = << PyNone, PyNone >>
    /\ InitBody(<< "init" >>)
    /\ UNCHANGED << simple_serial, testname >>

CallWorkload ==
    /\ UNCHANGED huskyVars
    /\ pc = "idle"
    /\ \E method \in WorkloadMethods, v \in Vectors, n \in Iterations :
        /\ call_args' = << PyList(v), PyInt(n) >>
        /\ RunWorkload(<< method >>, method, PyList(v), n)
    /\ UNCHANGED << simple_serial, testname >>

\* The caller has the result; the object is idle again.
ReturnToCaller ==
    /\ UNCHANGED huskyVars
    /\ pc = "done"
    /\ pc' = "idle"
    /\ stack' = << >>
    /\ testname' = ""
    /\ call_args' = << PyNone, PyNone >>
    /\ outcome' = NoOutcome
    /\ wire' = << >>
    /\ NoReader
    /\ UNCHANGED simple_serial

\* ============================================================ Husky

\* ------------------------------------------------------------ timing plan

SAMPLING_RATE_MAX == 200000000

\* For Husky the number of samples must be divisible by 3.
SegmentDivisor == 3

Abs(x) == IF x < 0 THEN -x ELSE x
Sign(x) == IF x < 0 THEN -1 ELSE IF x > 0 THEN 1 ELSE 0

RECURSIVE Gcd(_, _)
Gcd(a, b) == IF b = 0 THEN a ELSE Gcd(b, a % b)

RECURSIVE IsPowerOfTwo(_)
IsPowerOfTwo(n) ==
    IF n <= 1 THEN n = 1
    ELSE n % 2 = 0 /\ IsPowerOfTwo(n \div 2)

\* a // b of Python: the quotient rounded towards minus infinity (b # 0).
FloorDiv(a, b) == IF b > 0 THEN a \div b ELSE (-a) \div (-b)

\* int(n / d) of Python for an exact quotient: rounded towards zero (d # 0).
TruncDiv(n, d) == Sign(n) * Sign(d) * (Abs(n) \div Abs(d))

\* int(SAMPLING_RATE_MAX // pll_frequency)
AdcMul(pll_frequency) == FloorDiv(SAMPLING_RATE_MAX, pll_frequency)

\* ScaledCounts taking the remainder of the division for its quotient.
ScaledCountsRemainder(cycles, sampling_rate, target_freq) ==
    LET g == Gcd(Abs(sampling_rate), Abs(target_freq))
        n == cycles * (sampling_rate \div g)
        d == target_freq \div g
    IN  { n % Abs(d) }

\* int(cycles * (sampling_rate / target_freq)).  The quotient and the product
\* are floating-point: the quotient is exact when the reduced denominator is
\* a power of two; with an inexact quotient a product whose exact value is an
\* integer k may come out one unit in the last place short of k, and int()
\* then gives the integer before k.  Both results are kept.
ScaledCounts(cycles, sampling_rate, target_freq) ==
    LET g == Gcd(Abs(sampling_rate), Abs(target_freq))
        n == cycles * (sampling_rate \div g)
        d == target_freq \div g
        q == TruncDiv(n, d)
    IN  IF IsPowerOfTwo(Abs(d)) \/ n % Abs(d) # 0 \/ q = 0
        THEN {q}
        ELSE {q, q - Sign(q)}

\* RoundUpToSegment adding the remainder instead of its complement.
RoundUpToSegmentAddsRemainder(n) ==
    IF n % SegmentDivisor # 0 THEN n + (n % SegmentDivisor) ELSE n

\* RoundUpToSegment without the test of the remainder.
RoundUpToSegmentAlwaysAdds(n) ==
    n + SegmentDivisor - (n % SegmentDivisor)

\* if num_samples % 3: num_samples = num_samples + 3 - (num_samples % 3)
RoundUpToSegment(n) ==
    IF n % SegmentDivisor # 0
    THEN n + SegmentDivisor - (n % SegmentDivisor)
    ELSE n

NoneScope == [kind |-> "None", wraps |-> 0]
HuskyScope == [kind |-> "Husky", wraps |-> 0]
Segmented(scope) == [kind |-> "CwSegmented", wraps |-> scope.wraps + 1]

\* The object before __init__ has run, and after __init__ has raised.
NoHusky ==
    [scope |-> NoneScope, scope_gain |-> 0, clkgen_freq |-> 0, adc_mul |-> 0,
     sampling_rate |-> 0, target_freq |-> 0, offset_samples |-> 0,
     num_samples |-> 0, num_segments |-> 0]

\* __init__ divides by pll_frequency and by target_freq.
HuskyInitRaises(a) ==
    a.pll_frequency = 0 \/ a.pll_frequency * a.target_clk_mult = 0

\* self.sampling_rate and self.target_freq for the arguments a.
SamplingRate(a) == a.pll_frequency * AdcMul(a.pll_frequency)
TargetFreq(a) == a.pll_frequency * a.target_clk_mult

\* The values int(offset_cycles * ratio) and int(num_cycles * ratio) can take.
OffsetCounts(a) ==
    ScaledCounts(a.offset_cycles, SamplingRate(a), TargetFreq(a))
RawCounts(a) ==
    ScaledCounts(a.num_cycles, SamplingRate(a), TargetFreq(a))

\* The object __init__ leaves for the arguments a and the two counts.
HuskyPlan(a, off, raw) ==
    [scope |-> NoneScope,
     scope_gain |-> a.scope_gain,
     clkgen_freq |-> a.pll_frequency,
     adc_mul |-> AdcMul(a.pll_frequency),
     sampling_rate |-> SamplingRate(a),
     target_freq |-> TargetFreq(a),
     offset_samples |-> off,
     num_samples |-> RoundUpToSegment(raw),
     num_segments |-> a.num_segments]

Args(gain, cycles, segments, offset, pll, mult) ==
    [scope_gain |-> gain, num_cycles |-> cycles, num_segments |-> segments,
     offset_cycles |-> offset, pll_frequency |-> pll, target_clk_mult |-> mult]

NoArgs == Args(0, 0, 0, 0, 0, 0)

ScopeGain == 23

PllFrequencies ==
    { -48000000, 0, 7000000, 48000000, 100000000, 120000000, 200000000,
      250000000 }

\* The arguments the constructor is tried on.
PlanArgs ==
    { Args(ScopeGain, c, k, o, f, m) :
        c \in -1..MaxCycles, k \in 1..2,
        o \in -MaxOffsetCycles..MaxOffsetCycles,
        f \in PllFrequencies, m \in 0..MaxClkMult }
      \cup { Args(ScopeGain, 100, 1, 0, 48000000, 2) }

\* The arguments the capture sessions are built from.
SessionArgs ==
    { Args(ScopeGain, c, k, o, 48000000, 2) :
        c \in {1, 100}, k \in 1..2, o \in {-2, 0, 3} }

\* ------------------------------------------------------------ outcomes

HReturn(n) == [kind |-> "return", exc |-> "", traces |-> n]
HRaise(e) == [kind |-> "raise", exc |-> e, traces |-> 0]
HNoOutcome == [kind |-> "none", exc |-> "", traces |-> 0]

\* ------------------------------------------------------------ instrument

\* One access to the instrument: a register written with a number or a
\* text, or a method called.
Reg(name, num, txt) == [reg |-> name, num |-> num, txt |-> txt]
DevCall(name) == [reg |-> name, num |-> 0, txt |-> "()"]

\* What initialize_scope writes before it tests scope._is_husky.
SetupHead(h) ==
    << Reg("gain.db", h.scope_gain, ""),
       Reg("adc.basic_mode", 0, "rising_edge") >>

\* OffsetWrites handing the offset to the register whatever its sign.
OffsetWritesUnchecked(h) == << Reg("adc.offset", h.offset_samples, "") >>

\* The trigger offset: a negative offset goes to the presamples.
OffsetWrites(h) ==
    IF h.offset_samples >= 0
    THEN << Reg("adc.offset", h.offset_samples, "") >>
    ELSE << Reg("adc.offset", 0, ""),
            Reg("adc.presamples", -h.offset_samples, "") >>

\* What initialize_scope writes after the test and before it polls.
SetupBody(h) ==
    << Reg("clock.clkgen_src", 0, "extclk"),
       Reg("clock.clkgen_freq", h.clkgen_freq, ""),
       Reg("clock.adc_mul", h.adc_mul, ""),
       Reg("clock.extclk_monitor_enabled", 0, "False"),
       Reg("adc.samples", h.num_samples, "") >>
        \o OffsetWrites(h)
        \o << Reg("trigger.triggers", 0, "tio4"),
              Reg("io.tio1", 0, "serial_tx"),
              Reg("io.tio2", 0, "serial_rx"),
              Reg("io.hs2", 0, "disabled"),
              Reg("clock.clkgen_src", 0, "extclk") >>

NotHusky == "Only ChipWhisperer Husky is supported!"
LockTimeout == "ADC failed to lock"
TargetWarning == "Warning: Target did not finish operation"
TimeoutWarning == "Warning: Timeout happened during capture"

\* The ping count at which initialize_scope gives up.
LockCeiling == 3

\* The value of i above which the target-done loop warns.
TargetDoneCeiling == 100

\* A CwSegmented is wrapped at most this often.
MaxWraps == 2

\* LockGivesUp that never gives up.
LockNeverGivesUp(cnt) == FALSE

\* if ping_cnt == 3: raise
LockGivesUp(cnt) == cnt = LockCeiling

\* if i > 100: print the warning
TargetWarns(i) == i > TargetDoneCeiling

\* if ret: print the warning
CaptureWarnings(ret, w) == IF ret THEN Append(w, TimeoutWarning) ELSE w

\* SingleCaptureOutcome raising on a capture timeout.
SingleCaptureTimeoutRaises(ret) ==
    IF ret THEN HRaise(TimeoutWarning) ELSE HReturn(1)

\* return np.array([scope.get_last_trace(as_int=True)]): one trace, whatever
\* ret was.
SingleCaptureOutcome(ret) == HReturn(1)

NoCall ==
    /\ ping_cnt' = 0
    /\ lock_polls' = 0
    /\ lock_delays' = 0
    /\ lock_seen' = FALSE
    /\ poll_i' = 0
    /\ done_polls' = 0
    /\ capture_ret' = FALSE
    /\ warnings' = << >>

\* A method of Husky is over without having polled.
HFinish(name, log, out) ==
    /\ hop' = name
    /\ hpc' = "done"
    /\ dev_log' = log
    /\ houtcome' = out
    /\ NoCall

\* ------------------------------------------------------------ methods

\* Husky.__init__
HuskyNew ==
    /\ hpc = "new"
    /\ \E a \in PlanArgs :
        /\ hargs' = a
        /\ IF HuskyInitRaises(a)
           THEN /\ husky' = NoHusky
                /\ raw_samples' = 0
                /\ houtcome' = HRaise("ZeroDivisionError")
           ELSE /\ \E off \in OffsetCounts(a), raw \in RawCounts(a) :
                    /\ husky' = HuskyPlan(a, off, raw)
                    /\ raw_samples' = raw
                /\ houtcome' = HReturn(0)
    /\ hop' = "__init__"
    /\ hpc' = "done"
    /\ dev_log' = << >>
    /\ NoCall
    /\ UNCHANGED << armed, cmdVars >>

\* initialize_scope up to its polling loop.
InitializeScope ==
    /\ hpc = "idle"
    /\ \E is_husky \in BOOLEAN :
        IF is_husky
        THEN /\ hop' = "initialize_scope"
             /\ hpc' = "lock_poll"
             /\ dev_log' = SetupHead(husky) \o SetupBody(husky)
             /\ houtcome' = HNoOutcome
             /\ NoCall
        ELSE HFinish("initialize_scope", SetupHead(husky), HRaise(NotHusky))
    /\ UNCHANGED << hargs, raw_samples, husky, armed, cmdVars >>

\* One round of `while not scope.clock.adc_locked`: the status is read; locked
\* ends the loop and binds the scope, unlocked gives up at the ceiling and
\* otherwise counts and sleeps.
PollAdcLocked ==
    /\ hpc = "lock_poll"
    /\ lock_polls < LockCeiling + 1 + MaxOverrun
    /\ lock_polls' = lock_polls + 1
    /\ \E locked \in BOOLEAN :
        /\ lock_seen' = locked
        /\ IF locked
           THEN /\ husky' = [husky EXCEPT !.scope = HuskyScope]
                /\ armed' = FALSE
                /\ hpc' = "done"
                /\ houtcome' = HReturn(0)
                /\ UNCHANGED << ping_cnt, lock_delays >>
           ELSE IF LockGivesUp(ping_cnt)
           THEN /\ hpc' = "done"
                /\ houtcome' = HRaise(LockTimeout)
                /\ UNCHANGED << husky, armed, ping_cnt, lock_delays >>
           ELSE /\ ping_cnt' = ping_cnt + 1
                /\ lock_delays' = lock_delays + 1
                /\ UNCHANGED << husky, armed, hpc, houtcome >>
    /\ UNCHANGED << hargs, raw_samples, hop, poll_i, done_polls, capture_ret,
                    warnings, dev_log, cmdVars >>

\* configure_batch_mode.  A scope of None has no gain.  Whether a CwSegmented
\* has the gain and clock attributes read from self.scope is not decided by
\* husky.py: a second wrapping and an AttributeError are both kept.
ConfigureBatchMode ==
    /\ hpc = "idle"
    /\ IF husky.num_segments # 1
       THEN \/ /\ husky.scope.kind # "None"
               /\ husky.scope.wraps < MaxWraps
               /\ husky' = [husky EXCEPT !.scope = Segmented(husky.scope)]
               /\ HFinish("configure_batch_mode",
                          << DevCall("CwSegmented") >>, HReturn(0))
            \/ /\ husky.scope.kind # "Husky"
               /\ HFinish("configure_batch_mode", << >>,
                          HRaise("AttributeError"))
               /\ UNCHANGED husky
       ELSE /\ HFinish("configure_batch_mode", << >>, HReturn(0))
            /\ UNCHANGED husky
    /\ UNCHANGED << hargs, raw_samples, armed, cmdVars >>

\* ArmFails with a scope that is always there.
ArmAlwaysForwards(h) == FALSE

\* self.scope.arm() with self.scope still None: None has no arm.
ArmFails(h) == h.scope.kind = "None"

\* arm
Arm ==
    /\ hpc = "idle"
    /\ IF ArmFails(husky)
       THEN /\ HFinish("arm", << >>, HRaise("AttributeError"))
            /\ UNCHANGED armed
       ELSE /\ HFinish("arm", << DevCall("arm") >>, HReturn(0))
            /\ armed' = TRUE
    /\ UNCHANGED << hargs, raw_samples, husky, cmdVars >>

\* capture_and_transfer_waves up to the target-done loop (single mode), or
\* all of it (batch mode: the segmented scope returns num_segments traces,
\* a Husky scope has no capture_and_transfer_waves).
CaptureAndTransferWaves ==
    /\ hpc = "idle"
    /\ IF husky.scope.kind = "None"
       THEN /\ HFinish("capture_and_transfer_waves", << >>,
                       HRaise("AttributeError"))
            /\ UNCHANGED armed
       ELSE IF husky.num_segments = 1
       THEN /\ hop' = "capture_and_transfer_waves"
            /\ hpc' = "capture_poll"
            /\ dev_log' = << DevCall("capture") >>
            /\ houtcome' = HNoOutcome
            /\ armed' = FALSE
            /\ \E ret \in BOOLEAN : capture_ret' = ret
            /\ ping_cnt' = 0
            /\ lock_polls' = 0
            /\ lock_delays' = 0
            /\ lock_seen' = FALSE
            /\ poll_i' = 0
            /\ done_polls' = 0
            /\ warnings' = << >>
       ELSE IF husky.scope.kind = "CwSegmented"
       THEN /\ HFinish("capture_and_transfer_waves",
                       << DevCall("capture_and_transfer_waves") >>,
                       HReturn(husky.num_segments))
            /\ armed' = FALSE
       ELSE /\ HFinish("capture_and_transfer_waves", << >>,
                       HRaise("AttributeError"))
            /\ UNCHANGED armed
    /\ UNCHANGED << hargs, raw_samples, husky, cmdVars >>

\* One round of `while not target.is_done()`: done leaves the loop, warns of
\* a capture timeout when ret is set and returns the last trace; not done
\* counts, sleeps, and warns when i is above the ceiling.
PollTargetDone ==
    /\ hpc = "capture_poll"
    /\ poll_i < TargetDoneCeiling + MaxOverrun
    /\ done_polls' = done_polls + 1
    /\ \E done \in BOOLEAN :
        IF done
        THEN /\ hpc' = "done"
             /\ warnings' = CaptureWarnings(capture_ret, warnings)
             /\ dev_log' = Append(dev_log, DevCall("get_last_trace"))
             /\ houtcome' = SingleCaptureOutcome(capture_ret)
             /\ UNCHANGED poll_i
        ELSE /\ poll_i' = poll_i + 1
             /\ warnings' =
                    IF TargetWarns(poll_i + 1) THEN Append(warnings, TargetWarning)
                    ELSE warnings
             /\ UNCHANGED << hpc, dev_log, houtcome >>
    /\ UNCHANGED << hargs, raw_samples, husky, hop, ping_cnt, lock_polls,
                    lock_delays, lock_seen, capture_ret, armed, cmdVars >>

\* The caller has the result; the object is idle again.
HuskyReturn ==
    /\ hpc = "done"
    /\ hop # "__init__"
    /\ hpc' = "idle"
    /\ hop' = ""
    /\ houtcome' = HNoOutcome
    /\ dev_log' = << >>
    /\ NoCall
    /\ UNCHANGED << hargs, raw_samples, husky, armed, cmdVars >>

\* ============================================================ specifications

\* OTMLDSA.__init__: simple_serial unless the protocol is "ujson".
CmdInit ==
    /\ \E protocol \in { "ujson", "simpleserial" } :
        simple_serial = (protocol # "ujson")
    /\ stack = << >>
    /\ testname = ""
    /\ call_args = << PyNone, PyNone >>
    /\ pc = "idle"
    /\ num_attempts = 0
    /\ read_counter = 0
    /\ read_line = << >>
    /\ outcome = NoOutcome
    /\ wire = << >>
    /\ reads = 0
    /\ marker_before = FALSE

\* No Husky object yet.
HuskyAbsent ==
    /\ hargs = NoArgs
    /\ husky = NoHusky
    /\ raw_samples = 0
    /\ hop = ""
    /\ hpc = "new"
    /\ houtcome = HNoOutcome
    /\ ping_cnt = 0
    /\ lock_polls = 0
    /\ lock_delays = 0
    /\ lock_seen = FALSE
    /\ poll_i = 0
    /\ done_polls = 0
    /\ capture_ret = FALSE
    /\ warnings = << >>
    /\ dev_log = << >>
    /\ armed = FALSE

\* A Husky object as __init__ leaves it.
HuskyBuilt ==
    /\ hargs \in SessionArgs
    /\ ~HuskyInitRaises(hargs)
    /\ \E off \in OffsetCounts(hargs), raw \in RawCounts(hargs) :
        /\ husky = HuskyPlan(hargs, off, raw)
        /\ raw_samples = raw
    /\ hop = ""
    /\ hpc = "idle"
    /\ houtcome = HNoOutcome
    /\ ping_cnt = 0
    /\ lock_polls = 0
    /\ lock_delays = 0
    /\ lock_seen = FALSE
    /\ poll_i = 0
    /\ done_polls = 0
    /\ capture_ret = FALSE
    /\ warnings = << >>
    /\ dev_log = << >>
    /\ armed = FALSE

\* The command channel: an OTMLDSA object and its callers.
Init == CmdInit /\ HuskyAbsent

Next ==
    \/ CallStartTest
    \/ CallResultReader
    \/ CallReadResponse
    \/ CallInit
    \/ CallWorkload
    \/ ReadLine
    \/ ParseLine
    \/ ReturnToCaller

Spec == Init /\ [][Next]_vars

\* The timing plan: the constructor of Husky on its arguments.
PlanInit == CmdInit /\ ~simple_serial /\ HuskyAbsent

PlanNext == HuskyNew

SpecPlan == PlanInit /\ [][PlanNext]_vars

\* The capture session: a Husky object and its callers.
SessionInit == CmdInit /\ ~simple_serial /\ HuskyBuilt

SessionNext ==
    \/ InitializeScope
    \/ PollAdcLocked
    \/ ConfigureBatchMode
    \/ Arm
    \/ CaptureAndTransferWaves
    \/ PollTargetDone
    \/ HuskyReturn

SpecHusky == SessionInit /\ [][SessionNext]_vars

\* ============================================================ properties

\* ------------------------------------------------------------ wire shape

\* The line has the shape ...RESP_OK:<body> CRC:... with one marker before the
\* checksum delimiter: positions i < j of the marker and of the delimiter.
FramePositions(line) ==
    { p \in (1..Len(line)) \X (1..Len(line)) :
        /\ p[1] < p[2]
        /\ line[p[1]] = RespOkColon
        /\ line[p[2]] = Crc
        /\ \A k \in 1..(p[1] - 1) : line[k] # RespOkColon
        /\ \A k \in (p[1] + 1)..(p[2] - 1) : line[k] \notin {RespOkColon, Crc} }

Framed(line) == FramePositions(line) # {}

\* The text strictly between RESP_OK: and CRC: of a framed line.
FramedBody(line) ==
    LET p == CHOOSE q \in FramePositions(line) : TRUE
    IN  [k \in 1..(p[2] - p[1] - 1) |-> line[p[1] + k]]

\* The body is one JSON document.
IsJsonDocument(body) ==
    /\ Len(body) = 1
    /\ body[1] \in {BodyResult42, BodyResult0, BodyStatus, BodyMsgResult}

\* The body is a JSON object with the key "result".
HasResultKey(body) ==
    /\ Len(body) = 1
    /\ body[1] \in {BodyResult42, BodyResult0}

\* The value under "result".
ResultValue(body) == IF body[1] = BodyResult42 THEN PyInt(42) ELSE PyInt(0)

\* The text "result" occurs in the body.
MentionsResult(body) ==
    \E k \in 1..Len(body) :
        body[k] \in {BodyResult42, BodyResult0, BodyTruncated, BodyMsgResult}

HasMarker(line) == \E k \in 1..Len(line) : line[k] \in {RespOk, RespOkColon}

InResultReader == stack # << >> /\ stack[Len(stack)] = ResultReader

\* No line the reader has read so far holds the marker.
NoMarkerSoFar == ~marker_before /\ ~HasMarker(read_line)

\* ------------------------------------------------------------ C1

\* C1: with a budget maxAttempts >= 0 and no marker in the lines read, the
\* result reader returns nothing: it reads on until maxAttempts lines are
\* consumed and then ends with the Desynchronized error.
C1_NoMarkerEndsDesynchronized ==
    (InResultReader /\ num_attempts >= 0 /\ NoMarkerSoFar) =>
        /\ outcome.kind # "return"
        /\ reads <= num_attempts
        /\ pc = "readline" => reads < num_attempts
        /\ pc = "done" =>
               outcome = Raise(Desynchronized) /\ reads = num_attempts

\* The reader has used up a budget of MaxAttempts lines without a marker.
C1_Witness ==
    /\ stack = << ResultReader >>
    /\ pc = "done"
    /\ num_attempts = MaxAttempts
    /\ reads = MaxAttempts
    /\ NoMarkerSoFar
    /\ outcome = Raise(Desynchronized)

\* ------------------------------------------------------------ C2

C3_ReadsWithinBudget ==
    stack = << ResultReader >> => reads <= Max0(num_attempts)

\* ------------------------------------------------------------ C4

\* C4: when the first line with the marker is framed and its body is a JSON
\* object with the key "result", the result reader returns, on that line, the
\* value under that key, whatever surrounds the frame on the line and
\* however many lines without the marker came before.
C4_ReturnsResultValue ==
    [][ (pc = "parse" /\ stack = << ResultReader >> /\ ~marker_before
            /\ Framed(read_line) /\ HasResultKey(FramedBody(read_line)))
        => (pc' = "done" /\ reads' = reads
              /\ outcome' = Return(ResultValue(FramedBody(read_line)))) ]_vars

\* 'junk RESP_OK:{"result":42} CRC:abc' after a line without the marker gave 42.
C4_Witness ==
    /\ stack = << ResultReader >>
    /\ pc = "done"
    /\ reads = 2
    /\ ~marker_before
    /\ read_line = << Junk, RespOkColon, BodyResult42, Crc, Junk >>
    /\ outcome = Return(PyInt(42))

\* ------------------------------------------------------------ C5

InInit == stack = << "init", StrictReader >>

VecOperationTag(method) ==
    CASE method = "ml_dsa_vec_reject_batch_fvsr" -> "RejectFvsr"
      [] method = "ml_dsa_vec_add_batch_fvsr" -> "VecAddFvsr"
      [] method = "ml_dsa_vec_sub_batch_fvsr" -> "VecSubFvsr"
      [] method = "ml_dsa_vec_mul_batch_fvsr" -> "VecMulFvsr"
      [] method = "ml_dsa_vec_mac_batch_fvsr" -> "VecMacFvsr"
      [] method = "ml_dsa_vec_ntt_batch_fvsr" -> "NttFvsr"
      [] method = "ml_dsa_vec_intt_batch_fvsr" -> "InttFvsr"

\* C6: a vector workload started with the vector v and n iterations writes
\* three frames, in this order: "MlDsaSca", the operation frame, the payload
\* with data = v, data_length = 4 * len(v), iterations = n; it reads nothing.
C6_WorkloadWritesThreeFrames ==
    (pc = "done" /\ Len(stack) = 1 /\ stack[1] \in VecMethods) =>
        /\ outcome = Return(PyNone)
        /\ reads = 0
        /\ Writes(wire) =
               << TagFrame("MlDsaSca"),
                  TagFrame(VecOperationTag(stack[1])),
                  [tag |-> "", data |-> call_args[1],
                   data_length |-> 4 * Len(call_args[1].v),
                   iterations |-> call_args[2].n] >>

\* VecAdd of [1,2,3,4] with 10 iterations: data_length 16, iterations 10.
C6_Witness ==
    /\ pc = "done"
    /\ stack = << "ml_dsa_vec_add_batch_fvsr" >>
    /\ call_args = << PyList(<< 1, 2, 3, 4 >>), PyInt(10) >>
    /\ reads = 0
    /\ Writes(wire) =
           << TagFrame("MlDsaSca"), TagFrame("VecAddFvsr"),
              [tag |-> "", data |-> PyList(<< 1, 2, 3, 4 >>),
               data_length |-> 16, iterations |-> 10] >>

\* ------------------------------------------------------------ C7

InStartTest == stack # << >> /\ stack[1] = "start_test"

InSingleCapture ==
    hop = "capture_and_transfer_waves" /\ husky.num_segments = 1

\* The warning that the target did not finish has been printed.
TargetWarned == \E k \in 1..Len(warnings) : warnings[k] = TargetWarning

\* C8 as stated: in single mode the target-done probe is polled a bounded
\* number of times; once the warning is out the polling is over and the call
\* has returned one trace.
C8_PollingStopsAfterWarning ==
    InSingleCapture =>
        /\ done_polls <= 101
        /\ TargetWarned => (hpc = "done" /\ houtcome = HReturn(1))

\* ------------------------------------------------------------ C9

\* C9: initialize_scope sleeps at most 3 times between reads of the ADC lock;
\* a read that finds the lock ends the call with the scope bound; with no
\* lock found the call ends, after 3 sleeps, with the lock-timeout error.
C9_LockPollBounded ==
    hop = "initialize_scope" =>
        /\ lock_delays <= 3
        /\ lock_polls <= lock_delays + 1
        /\ hpc = "lock_poll" => (~lock_seen /\ lock_polls = lock_delays)
        /\ lock_seen =>
               /\ hpc = "done"
               /\ houtcome = HReturn(0)
               /\ husky.scope = HuskyScope
        /\ (hpc = "done" /\ ~lock_seen) =>
               \/ houtcome = HRaise(NotHusky) /\ lock_polls = 0
               \/ /\ houtcome = HRaise(LockTimeout)
                  /\ lock_delays = 3
                  /\ lock_polls = 4

\* The lock was never found: the call has failed after 3 sleeps.
C9_Witness ==
    /\ hop = "initialize_scope"
    /\ hpc = "done"
    /\ ~lock_seen
    /\ lock_delays = 3
    /\ houtcome = HRaise(LockTimeout)

\* ------------------------------------------------------------ C10

\* C10: for 0 < pll_frequency <= 200 MHz, a positive target clock multiplier
\* and a cycle count >= 0 the constructor leaves num_samples a non-negative
\* multiple of 3 and sampling_rate = pll_frequency * adc_mul <= 200 MHz.
C10_PlanWithinLimits ==
    (hop = "__init__"
        /\ hargs.pll_frequency >= 1
        /\ hargs.pll_frequency <= 200000000
        /\ hargs.target_clk_mult >= 1
        /\ hargs.num_cycles >= 0) =>
        /\ houtcome.kind = "return"
        /\ husky.num_samples >= 0
        /\ husky.num_samples % 3 = 0
        /\ husky.adc_mul >= 1
        /\ husky.sampling_rate = hargs.pll_frequency * husky.adc_mul
        /\ husky.sampling_rate <= 200000000

\* 48 MHz, multiplier 2, 100 cycles: 4 x 48 MHz = 192 MHz and 201 samples.
C10_Witness ==
    /\ hop = "__init__"
    /\ hargs = Args(ScopeGain, 100, 1, 0, 48000000, 2)
    /\ husky.adc_mul = 4
    /\ husky.sampling_rate = 192000000
    /\ husky.num_samples = 201

\* ------------------------------------------------------------ C11

\* The arguments of the end-to-end scenario.
ScenarioArgs == Args(ScopeGain, 100, 1, 0, 48000000, 2)

\* C11: num_samples is the least multiple of 3 that is >= the raw count
\* int(num_cycles * ratio): raw <= num_samples < raw + 3, and a raw count that
\* is a multiple of 3 is left as it is.  48 MHz, multiplier 2 and 100 cycles
\* give adc_mul 4, 192 MHz, 96 MHz, raw 200 and num_samples 201.
C11_RoundedUpToSegment ==
    (hop = "__init__" /\ houtcome.kind = "return") =>
        /\ husky.num_samples % 3 = 0
        /\ raw_samples <= husky.num_samples
        /\ husky.num_samples < raw_samples + 3
        /\ raw_samples % 3 = 0 => husky.num_samples = raw_samples
        /\ hargs = ScenarioArgs =>
               /\ husky.adc_mul = 4
               /\ husky.sampling_rate = 192000000
               /\ husky.target_freq = 96000000
               /\ raw_samples = 200
               /\ husky.num_samples = 201

\* A raw count of 4 has been rounded up to 6.
C11_Witness ==
    /\ hop = "__init__"
    /\ houtcome.kind = "return"
    /\ raw_samples = 4
    /\ husky.num_samples = 6

\* A raw count that is a multiple of 3 has been kept.
C11_WitnessDivisible ==
    /\ hop = "__init__"
    /\ houtcome.kind = "return"
    /\ raw_samples = 6
    /\ husky.num_samples = 6

\* ------------------------------------------------------------ C12

\* C12 as stated: the constructor fails when pll_frequency <= 0 and when
\* pll_frequency is above the maximum sampling rate (adc_mul < 1), touching
\* no instrument; an object it returns has adc_mul >= 1 and num_samples > 0.
C12_InvalidPlanRejected ==
    hop = "__init__" =>
        /\ dev_log = << >>
        /\ (hargs.pll_frequency <= 0
                \/ hargs.pll_frequency > SAMPLING_RATE_MAX) =>
               houtcome.kind = "raise"
        /\ houtcome.kind = "return" =>
               /\ husky.adc_mul >= 1
               /\ husky.num_samples > 0

\* ------------------------------------------------------------ C13

\* The warning of a capture timeout has been printed.
TimeoutWarned == \E k \in 1..Len(warnings) : warnings[k] = TimeoutWarning

\* C13: a single-mode capture whose scope.capture reported a timeout raises
\* nothing: once the target is done it has printed the timeout warning and
\* returned one trace, the last trace of the instrument, as a capture without
\* timeout does (which prints no such warning).
C13_TimeoutIsWarning ==
    (InSingleCapture /\ dev_log # << >>) =>
        /\ houtcome.kind # "raise"
        /\ hpc = "done" =>
               /\ houtcome = HReturn(1)
               /\ dev_log = << DevCall("capture"), DevCall("get_last_trace") >>
               /\ TimeoutWarned <=> capture_ret

\* A capture with a timeout is over: warning printed, one trace returned.
C13_Witness ==
    /\ InSingleCapture
    /\ capture_ret
    /\ hpc = "done"
    /\ TimeoutWarned
    /\ houtcome = HReturn(1)

\* ------------------------------------------------------------ C14

\* A workload method, called directly or through start_test, has returned.
WorkloadStarted ==
    /\ pc = "done"
    /\ stack # << >>
    /\ stack[Len(stack)] \in WorkloadMethods
    /\ outcome.kind = "return"

IsModeWrite(e) == e = Write(TagFrame("MlDsaSca"))
IsOperationWrite(e) ==
    e.ev = "write" /\ e.frame.tag \notin { "", "MlDsaSca" }
IsPayloadWrite(e) == e.ev = "write" /\ e.frame.tag = ""

\* C14 as stated: a workload start writes the mode selector, then sleeps,
\* then writes the operation frame, then sleeps, then writes the payload.
C14_DelayAfterEachCommand ==
    WorkloadStarted =>
        \E i, j, k, l, m \in 1..Len(wire) :
            /\ i < j /\ j < k /\ k < l /\ l < m
            /\ IsModeWrite(wire[i])
            /\ wire[j] = Sleep
            /\ IsOperationWrite(wire[k])
            /\ wire[l] = Sleep
            /\ IsPayloadWrite(wire[m])

\* C14, amended: a workload start puts exactly five events on the command
\* channel: a settling delay, the write of the mode selector, the write of
\* the operation frame with no delay before it, a settling delay, the write
\* of the payload.
C14_DelayBeforeModeAndPayload ==
    WorkloadStarted =>
        /\ Len(wire) = 5
        /\ wire[1] = Sleep
        /\ IsModeWrite(wire[2])
        /\ IsOperationWrite(wire[3])
        /\ wire[4] = Sleep
        /\ IsPayloadWrite(wire[5])

\* The rejection workload has been started directly.
C14_Witness ==
    /\ WorkloadStarted
    /\ stack = << "ml_dsa_vec_reject_batch_fvsr" >>
    /\ wire[3] = Write(TagFrame("RejectFvsr"))
    /\ wire[4] = Sleep

\* ------------------------------------------------------------ C15

\* The numbers written to register `name` in the call, in order.
RECURSIVE WrittenTo(_, _)
WrittenTo(name, log) ==
    IF log = << >> THEN << >>
    ELSE IF Head(log).reg = name
         THEN << Head(log).num >> \o WrittenTo(name, Tail(log))
         ELSE WrittenTo(name, Tail(log))

\* initialize_scope has configured the instrument (it is a Husky).
ScopeConfigured ==
    hop = "initialize_scope" /\ houtcome # HRaise(NotHusky)

\* C15: initialize_scope never writes a negative trigger offset: with
\* offset_samples >= 0 it writes offset = offset_samples and no presamples;
\* with offset_samples < 0 it writes offset = 0 and presamples =
\* -offset_samples, a positive number.
C15_OffsetNeverNegative ==
    /\ hop = "initialize_scope" =>
           \A k \in 1..Len(dev_log) :
               dev_log[k].reg = "adc.offset" => dev_log[k].num >= 0
    /\ ScopeConfigured =>
           IF husky.offset_samples >= 0
           THEN /\ WrittenTo("adc.offset", dev_log)
                       = << husky.offset_samples >>
                /\ WrittenTo("adc.presamples", dev_log) = << >>
           ELSE /\ WrittenTo("adc.offset", dev_log) = << 0 >>
                /\ WrittenTo("adc.presamples", dev_log)
                       = << -husky.offset_samples >>
                /\ -husky.offset_samples > 0

\* An offset of -2 cycles, -4 samples: offset 0 and 4 presamples written.
C15_Witness ==
    /\ ScopeConfigured
    /\ husky.offset_samples = -4
    /\ WrittenTo("adc.offset", dev_log) = << 0 >>
    /\ WrittenTo("adc.presamples", dev_log) = << 4 >>

\* ------------------------------------------------------------ C16

\* No initialize_scope has succeeded on the object: its scope is None.
Unlocked == husky.scope = NoneScope

\* C16: the scope of the object stays None until an initialize_scope finds
\* the lock, and arm called while it is None fails with an exception, sends
\* nothing to the instrument and changes neither the object nor the
\* instrument; so does every repetition of the call.
C16_ArmBeforeLockFails ==
    [][ /\ (Unlocked /\ ~Unlocked') =>
               (hop = "initialize_scope" /\ lock_seen')
        /\ (Unlocked /\ hpc = "idle" /\ hop' = "arm") =>
               /\ hpc' = "done"
               /\ houtcome'.kind = "raise"
               /\ dev_log' = << >>
               /\ husky' = husky
               /\ armed' = armed ]_vars

\* arm has failed on an object without a scope.
C16_Witness ==
    /\ hop = "arm"
    /\ hpc = "done"
    /\ Unlocked
    /\ houtcome = HRaise("AttributeError")
    /\ dev_log = << >>
    /\ ~armed

\* ------------------------------------------------------------ C17

\* The call that starts with this step reaches the instrument.
Forwarded(name) == hpc = "idle" /\ hop' = name /\ dev_log' # << >>

\* C17 as stated: a capture is started on the instrument only when an arm has
\* succeeded since the last capture or lock, and arm reaches the instrument
\* only after a successful lock; a call out of this order is not forwarded.
C17_CallsFollowSessionOrder ==
    [][ /\ Forwarded("capture_and_transfer_waves") => armed
        /\ Forwarded("arm") => ~Unlocked ]_vars

\* ------------------------------------------------------------ C18

\* The constructor has returned for a pll frequency within the limit, a
\* positive multiplier and a positive cycle count.
PlanBuilt ==
    /\ hop = "__init__"
    /\ houtcome.kind = "return"
    /\ hargs.pll_frequency > 0
    /\ hargs.pll_frequency <= SAMPLING_RATE_MAX
    /\ hargs.target_clk_mult > 0
    /\ hargs.num_cycles > 0

\* The raw counts the constructor computes for c cycles, all else as in hargs.
RawFor(c) == RawCounts([hargs EXCEPT !.num_cycles = c])

\* sampling_rate / target_freq is a binary fraction: the quotient and its
\* products with the cycle counts are exact in floating point.
ExactRatio ==
    IsPowerOfTwo(husky.target_freq
                     \div Gcd(husky.sampling_rate, husky.target_freq))

\* C18 as stated: with the frequencies and the multiplier fixed, the raw
\* sample count is strictly increasing in the cycle count: raw(c1) < raw(c2)
\* for 0 < c1 < c2, whatever the ratio.  Stated for the ratios that floating
\* point represents exactly.
C18_RawStrictlyIncreasing ==
    (PlanBuilt /\ ExactRatio) =>
        \A c1 \in 1..(hargs.num_cycles - 1) :
            \A r1 \in RawFor(c1) : r1 < raw_samples

\* C18, amended: the raw sample count never decreases as the cycle count
\* grows, raw(c1) <= raw(c2) for 0 < c1 < c2, and it is strictly increasing
\* when the sampling rate is at least the target frequency.
C18_RawNonDecreasing ==
    PlanBuilt =>
        \A c1 \in 1..(hargs.num_cycles - 1) :
            \A r1 \in RawFor(c1) :
                /\ r1 <= raw_samples
                /\ husky.sampling_rate >= husky.target_freq =>
                       r1 < raw_samples

\* 120 MHz sampled at 120 MHz with a 240 MHz target: 2 and 3 cycles both
\* give a raw count of 1.
C18_Witness ==
    /\ PlanBuilt
    /\ hargs.pll_frequency = 120000000
    /\ hargs.target_clk_mult = 2
    /\ hargs.num_cycles = 3
    /\ raw_samples = 1
    /\ RawFor(2) = { 1 }

\* ------------------------------------------------------------ C19

\* The object is in batch mode and bound to the segmented adapter that wraps
\* the base instrument once.
BatchBound ==
    husky.num_segments # 1 /\ husky.scope = Segmented(HuskyScope)

\* C19 as stated, for the re-lock it names: re-running initialize_scope on a
\* batch-mode object bound to the segmented adapter leaves it bound to the
\* adapter, so that a batch capture never meets an unwrapped instrument.
C19_RelockKeepsBatchScope ==
    [][ (hop = "initialize_scope" /\ BatchBound) => BatchBound' ]_vars

\* ------------------------------------------------------------ C20

\* C20 as stated: read_response(max_tries) calls readline at most
\* max(max_tries, 0) times, for negative max_tries too.
C20_StrictReadsWithinBudget ==
    stack = << StrictReader >> => reads <= Max0(num_attempts)

====
